---- MODULE Spec2Model ----
(***************************************************************************)
(* Model of aoi_data_manager's local persistence layer (SqlOperations)     *)
(* and of the cross-database merge SqlOperations.merge_target_database.    *)
(*                                                                         *)
(* Two stores (database files) exist, "source" and "target".  Each holds   *)
(* a Defect table and a Repair table; a table is a set of rows and the     *)
(* primary key on id is enforced by the operations, as SQLite enforces it. *)
(* merge_target_database runs step by step (one step per call it makes),   *)
(* and every call into the storage layer may fail.                         *)
(***************************************************************************)
EXTENDS Integers, Sequences, FiniteSets, TLC

\* ---------------------------------------------------------------- bounds
NumIds  == 2     \* identities 1..NumIds
NumVals == 2     \* values of the numeric field x
MaxDel  == 1     \* longest delete list passed to merge_target_database
MaxOps  == 2     \* record-store calls issued by the caller itself
MaxMerges == 2   \* calls of merge_target_database
NumHandles == 1  \* handles the caller constructs itself
MaxCalls == 1    \* data calls the caller issues on its handles
MaxBatch == 2    \* longest list passed to a batch call
MaxIndex == 11   \* largest current_board_index and defect_number

Ids    == 1..NumIds
Vals   == 1..NumVals
Stores == {"source", "target"}
Handles == 1..NumHandles

\* ---------------------------------------------------------- entity model
\* Python's None, a value that differs from every record, list and number.
None == [None |-> TRUE]

\* schema.DefectInfo: id, the persisted fields (x stands for them) and the
\* board_number_label, which the table does not hold.
DefectInfo(id, x, label) == [id |-> id, x |-> x, board_number_label |-> label]

\* schema.RepairdInfo: id and the persisted fields (is_repaird stands for them).
RepairdInfo(id, is_repaird) == [id |-> id, is_repaird |-> is_repaird]

\* db_models: the Defect table's row, keyed by id.
DefectInfoTable(id, x) == [id |-> id, x |-> x]

\* db_models: the Repair table's row, keyed by id.
RepairdInfoTable(id, is_repaird) == [id |-> id, is_repaird |-> is_repaird]

\* SqlOperations._schema_to_db_model, DefectInfo branch.
schema_to_db_defect(obj) == DefectInfoTable(obj.id, obj.x)

\* SqlOperations._schema_to_db_model, RepairdInfo branch.
schema_to_db_repaird(obj) == RepairdInfoTable(obj.id, obj.is_repaird)

\* SqlOperations._db_model_to_schema, DefectInfoTable branch: the label is
\* not passed to the constructor and takes the schema's default "", the empty
\* sequence of characters.
db_model_to_schema_defect(row) == DefectInfo(row.id, row.x, <<>>)

\* SqlOperations._db_model_to_schema, RepairdInfoTable branch.
db_model_to_schema_repaird(row) == RepairdInfo(row.id, row.is_repaird)

\* ------------------------------------------------------ session primitives
\* A database file D holds the two tables: D.defect and D.repaird.

\* Mutant of session_get: the primary key is not compared.
session_get_any(T, id) == T

\* Session.get(Table, id): the rows of table T holding that primary key.
session_get(T, id) == {r \in T : r.id = id}

\* Mutant of session_add: INSERT OR REPLACE.
session_add_replace(T, row) ==
  [table |-> {r \in T : r.id # row.id} \cup {row}, raised |-> "none"]

\* Session.add + commit: INSERT; a duplicate primary key is an IntegrityError
\* and nothing is committed.
session_add(T, row) ==
  IF session_get(T, row.id) # {}
    THEN [table |-> T, raised |-> "IntegrityError"]
    ELSE [table |-> T \cup {row}, raised |-> "none"]

\* Mutant of session_merge: a row already present is kept as it is.
session_merge_keep_existing(T, row) ==
  [table |-> IF {r \in T : r.id = row.id} # {} THEN T ELSE T \cup {row},
   raised |-> "none"]

\* Mutant of session_merge: a plain INSERT, which a present row rejects.
session_merge_strict(T, row) ==
  IF {r \in T : r.id = row.id} # {}
    THEN [table |-> T, raised |-> "IntegrityError"]
    ELSE [table |-> T \cup {row}, raised |-> "none"]

\* Mutant of session_merge: the row is inserted without looking for a row of
\* its primary key.
session_merge_append(T, row) == [table |-> T \cup {row}, raised |-> "none"]

\* Session.merge: load the row with the same primary key and overwrite every
\* attribute, or insert the row when there is none.
session_merge(T, row) ==
  [table |-> (T \ session_get(T, row.id)) \cup {row}, raised |-> "none"]

\* Mutant of session_delete: the DELETE is never flushed.
session_delete_nothing(T, id) == T

\* Session.delete of the rows found by Session.get.
session_delete(T, id) == T \ session_get(T, id)

\* ------------------------------------------------------- record store ops
\* The orders in which a SELECT without ORDER BY may return the rows of T.
Orders(T) ==
  {o \in [1..Cardinality(T) -> T] : \A a, b \in 1..Cardinality(T) : a # b => o[a] # o[b]}

\* SqlOperations.insert_defect_info: strict insert in its own transaction;
\* on failure rollback and re-raise.
insert_defect_info(D, defect_info) ==
  LET r == session_add(D.defect, schema_to_db_defect(defect_info))
  IN  [db |-> [D EXCEPT !.defect = r.table], raised |-> r.raised]

\* SqlOperations.insert_repaird_info: strict insert; the session's scope exit
\* discards the failed transaction.
insert_repaird_info(D, repaird_info) ==
  LET r == session_add(D.repaird, schema_to_db_repaird(repaird_info))
  IN  [db |-> [D EXCEPT !.repaird = r.table], raised |-> r.raised]

\* Mutant of merge_each: the list is merged from its end, so the first of two
\* rows of one id is the one that stays.
RECURSIVE merge_each_reversed(_, _)
merge_each_reversed(T, db_models) ==
  IF db_models = <<>>
    THEN [table |-> T, raised |-> "none"]
    ELSE LET r == merge_each_reversed(T, Tail(db_models))
         IN  IF r.raised # "none" THEN r ELSE session_merge(r.table, Head(db_models))

\* The loop `for db_model in db_models: session.merge(db_model)`.
RECURSIVE merge_each(_, _)
merge_each(T, db_models) ==
  IF db_models = <<>>
    THEN [table |-> T, raised |-> "none"]
    ELSE LET r == session_merge(T, Head(db_models))
         IN  IF r.raised # "none" THEN r ELSE merge_each(r.table, Tail(db_models))

\* SqlOperations.merge_insert_defect_infos: convert, merge each, commit once;
\* on an error roll the whole batch back and re-raise.
merge_insert_defect_infos(D, defect_infos) ==
  LET db_models == [k \in DOMAIN defect_infos |-> schema_to_db_defect(defect_infos[k])]
      r == merge_each(D.defect, db_models)
  IN  IF r.raised # "none"
        THEN [db |-> D, raised |-> r.raised]
        ELSE [db |-> [D EXCEPT !.defect = r.table], raised |-> "none"]

\* SqlOperations.merge_repaird_info_batch: convert and merge each, commit
\* once; an error leaves the transaction uncommitted.
merge_repaird_info_batch(D, repaird_infos) ==
  LET db_models == [k \in DOMAIN repaird_infos |-> schema_to_db_repaird(repaird_infos[k])]
      r == merge_each(D.repaird, db_models)
  IN  IF r.raised # "none"
        THEN [db |-> D, raised |-> r.raised]
        ELSE [db |-> [D EXCEPT !.repaird = r.table], raised |-> "none"]

\* SqlOperations.get_all_defect_info: every row, converted, in some order.
get_all_defect_info(D) ==
  {[k \in DOMAIN o |-> db_model_to_schema_defect(o[k])] : o \in Orders(D.defect)}

\* SqlOperations.get_all_repaird_info: every row, converted, in some order.
get_all_repaird_info(D) ==
  {[k \in DOMAIN o |-> db_model_to_schema_repaird(o[k])] : o \in Orders(D.repaird)}

\* Mutant of delete_defect_info: the Repair row of the same id goes as well.
delete_defect_info_cascade(D, defect_id) ==
  IF {r \in D.defect : r.id = defect_id} # {}
    THEN [db |-> [defect  |-> {r \in D.defect : r.id # defect_id},
                  repaird |-> {r \in D.repaird : r.id # defect_id}],
          ret |-> TRUE]
    ELSE [db |-> D, ret |-> FALSE]

\* SqlOperations.delete_defect_info: delete the Defect row if Session.get
\* finds it and return True, else return False.
delete_defect_info(D, defect_id) ==
  IF session_get(D.defect, defect_id) # {}
    THEN [db |-> [D EXCEPT !.defect = session_delete(D.defect, defect_id)], ret |-> TRUE]
    ELSE [db |-> D, ret |-> FALSE]

\* Mutant of delete_repaird_info: the Defect row of the same id goes as well.
delete_repaird_info_cascade(D, repair_id) ==
  IF {r \in D.repaird : r.id = repair_id} # {}
    THEN [db |-> [defect  |-> {r \in D.defect : r.id # repair_id},
                  repaird |-> {r \in D.repaird : r.id # repair_id}],
          ret |-> TRUE]
    ELSE [db |-> D, ret |-> FALSE]

\* Mutant of delete_repaird_info: True is returned whether or not a row was
\* found.
delete_repaird_info_true(D, repair_id) ==
  [db |-> [D EXCEPT !.repaird = session_delete(D.repaird, repair_id)], ret |-> TRUE]

\* SqlOperations.delete_repaird_info: delete the Repair row if Session.get
\* finds it and return True, else return False.
delete_repaird_info(D, repair_id) ==
  IF session_get(D.repaird, repair_id) # {}
    THEN [db |-> [D EXCEPT !.repaird = session_delete(D.repaird, repair_id)], ret |-> TRUE]
    ELSE [db |-> D, ret |-> FALSE]

\* Mutant of create_tables: the tables are dropped and created anew.
create_tables_anew(D) == [defect |-> {}, repaird |-> {}]

\* SQLModel.metadata.create_all: CREATE TABLE IF NOT EXISTS, no row is touched.
create_tables(D) == D

\* The INSERTs of one flush, in list order: the first duplicate primary key
\* raises IntegrityError.
RECURSIVE add_each(_, _)
add_each(T, db_models) ==
  IF db_models = <<>>
    THEN [table |-> T, raised |-> "none"]
    ELSE LET r == session_add(T, Head(db_models))
         IN  IF r.raised # "none" THEN r ELSE add_each(r.table, Tail(db_models))

\* Mutant of insert_defect_infos: every row is committed as it is added.
insert_defect_infos_autocommit(D, defect_infos) ==
  LET db_models == [k \in DOMAIN defect_infos |-> schema_to_db_defect(defect_infos[k])]
      r == add_each(D.defect, db_models)
  IN  [db |-> [D EXCEPT !.defect = r.table], raised |-> r.raised]

\* SqlOperations.insert_defect_infos: convert, add_all, commit once; on an
\* error rollback and re-raise.
insert_defect_infos(D, defect_infos) ==
  LET db_models == [k \in DOMAIN defect_infos |-> schema_to_db_defect(defect_infos[k])]
      r == add_each(D.defect, db_models)
  IN  IF r.raised # "none"
        THEN [db |-> D, raised |-> r.raised]
        ELSE [db |-> [D EXCEPT !.defect = r.table], raised |-> "none"]

\* SqlOperations.insert_defect_info_batch: convert and add each, commit once;
\* an error leaves the transaction uncommitted and the session's scope exit
\* discards it.
insert_defect_info_batch(D, defect_infos) ==
  LET db_models == [k \in DOMAIN defect_infos |-> schema_to_db_defect(defect_infos[k])]
      r == add_each(D.defect, db_models)
  IN  IF r.raised # "none"
        THEN [db |-> D, raised |-> r.raised]
        ELSE [db |-> [D EXCEPT !.defect = r.table], raised |-> "none"]

\* SqlOperations.insert_repaird_info_batch: as insert_defect_info_batch, on
\* the Repair table.
insert_repaird_info_batch(D, repaird_infos) ==
  LET db_models == [k \in DOMAIN repaird_infos |-> schema_to_db_repaird(repaird_infos[k])]
      r == add_each(D.repaird, db_models)
  IN  IF r.raised # "none"
        THEN [db |-> D, raised |-> r.raised]
        ELSE [db |-> [D EXCEPT !.repaird = r.table], raised |-> "none"]

\* Mutant of merge_insert_defect_info: the row is appended, whatever the table
\* holds.
merge_insert_defect_info_append(D, defect_info) ==
  [db |-> [D EXCEPT !.defect = @ \cup {schema_to_db_defect(defect_info)}],
   raised |-> "none"]

\* SqlOperations.merge_insert_defect_info: Session.merge of the converted
\* record, commit; on an error rollback and re-raise.
merge_insert_defect_info(D, defect_info) ==
  LET r == session_merge(D.defect, schema_to_db_defect(defect_info))
  IN  IF r.raised # "none"
        THEN [db |-> D, raised |-> r.raised]
        ELSE [db |-> [D EXCEPT !.defect = r.table], raised |-> "none"]

\* SqlOperations.get_defect_info_by_id: the converted row, or None.
get_defect_info_by_id(D, defect_id) ==
  LET found == session_get(D.defect, defect_id)
  IN  IF found # {} THEN db_model_to_schema_defect(CHOOSE r \in found : TRUE) ELSE None

\* SqlOperations.get_repaird_info_by_id: the converted row, or None.
get_repaird_info_by_id(D, repair_id) ==
  LET found == session_get(D.repaird, repair_id)
  IN  IF found # {} THEN db_model_to_schema_repaird(CHOOSE r \in found : TRUE) ELSE None

\* The Session of one `with Session(self.engine)` block that issues several
\* statements: the table as its transaction sees it, the ids of the objects it
\* holds (its identity map), and the ids of those marked for deletion and not
\* yet flushed.
Session(T) == [table |-> T, identity_map |-> {}, deleted |-> {}]

\* A flush: the pending DELETEs are executed and the deleted objects leave
\* the identity map.
session_flush(S) ==
  [table |-> {r \in S.table : r.id \notin S.deleted},
   identity_map |-> S.identity_map \ S.deleted,
   deleted |-> {}]

\* Session.get inside such a session: an object in the identity map is
\* returned without a query, also when it is marked for deletion; otherwise
\* the session autoflushes and SELECTs the row.
session_get_held(S, id) ==
  IF id \in S.identity_map
    THEN [session |-> S, found |-> TRUE]
    ELSE LET F == session_flush(S)
         IN  IF session_get(F.table, id) # {}
               THEN [session |-> [F EXCEPT !.identity_map = @ \cup {id}], found |-> TRUE]
               ELSE [session |-> F, found |-> FALSE]

\* The loop `for id in ids: obj = session.get(Table, id)
\*           if obj: session.delete(obj); deleted_count += 1`.
RECURSIVE delete_each(_, _, _)
delete_each(S, ids, deleted_count) ==
  IF ids = <<>>
    THEN [session |-> S, deleted_count |-> deleted_count]
    ELSE LET g == session_get_held(S, Head(ids))
         IN  IF g.found
               THEN delete_each([g.session EXCEPT !.deleted = @ \cup {Head(ids)}],
                                Tail(ids), deleted_count + 1)
               ELSE delete_each(g.session, Tail(ids), deleted_count)

\* SqlOperations.delete_defect_infos: the loop in one session, one commit,
\* return deleted_count.
delete_defect_infos(D, defect_ids) ==
  LET r == delete_each(Session(D.defect), defect_ids, 0)
  IN  [db |-> [D EXCEPT !.defect = session_flush(r.session).table],
       ret |-> r.deleted_count]

\* SqlOperations.delete_repaird_infos: the loop in one session, one commit,
\* return deleted_count.
delete_repaird_infos(D, repair_ids) ==
  LET r == delete_each(Session(D.repaird), repair_ids, 0)
  IN  [db |-> [D EXCEPT !.repaird = session_flush(r.session).table],
       ret |-> r.deleted_count]

\* ---------------------------------------------------------- storage handle
\* A name not yet bound to a handle.
Unbound == [bound |-> FALSE, _closed |-> FALSE, engine |-> "none"]

\* SqlOperations.__init__ after _create_engine succeeded.
SqlOperations_init == [bound |-> TRUE, _closed |-> FALSE, engine |-> "live"]

\* Mutant of check_connection_raises: the _closed flag is not looked at.
check_connection_raises_never(h) == FALSE

\* SqlOperations._check_connection: TRUE when it raises RuntimeError.
check_connection_raises(h) == h._closed

\* Mutant of close: the engine is disposed whether or not the handle is closed.
close_again(h, dispose_fails) ==
  [handle |-> [h EXCEPT !._closed = TRUE,
                        !.engine = IF dispose_fails THEN "live" ELSE "disposed"],
   raised |-> dispose_fails,
   disposed |-> 1]

\* SqlOperations.close: dispose the engine once; _closed is set in the
\* finally clause, so also when dispose raises (the error then propagates).
\* disposed counts the calls of engine.dispose() this call of close makes.
close(h, dispose_fails) ==
  IF ~h._closed /\ h.engine # "none"
    THEN [handle |-> [h EXCEPT !._closed = TRUE,
                               !.engine = IF dispose_fails THEN "live" ELSE "disposed"],
          raised |-> dispose_fails,
          disposed |-> 1]
    ELSE [handle |-> h, raised |-> FALSE, disposed |-> 0]

\* SqlOperations.__enter__: the handle itself, as it is.
SqlOperations_enter(h) == h

\* SqlOperations.__exit__: close the handle and return None, so the exception
\* of the block, if any, is not suppressed; raised is the error of close.
SqlOperations_exit(h, exc_type, dispose_fails) ==
  LET r == close(h, dispose_fails)
  IN  [handle |-> r.handle, raised |-> r.raised, disposed |-> r.disposed,
       suppress |-> FALSE]

\* ------------------------------------------------------------------ state
VARIABLES
  db,              \* db[s][k]: the rows of table k in the database file of store s
  nops,            \* record-store calls issued so far by the caller itself
  nmerges,         \* calls of merge_target_database so far
  last,            \* outcome of the caller's most recent record-store call
  pc,              \* position inside merge_target_database ("idle" outside it)
  args,            \* delete_defect_ids and delete_repaird_ids of the running merge
  i,               \* turn of the statement at pc (index into its delete list)
  source_ops,      \* the handle merge_target_database opens on source
  target_ops,      \* the handle merge_target_database opens on target
  source_defects,  \* local: the list read from source's Defect table
  source_repairds, \* local: the list read from source's Repair table
  exc,             \* the exception in flight; at "done", what the call raised
  failed,          \* the call inside the try block that raised, if any
  log,             \* the calls the merge has completed, in order
  pre,             \* db when the running merge was called
  post1,           \* target after the preceding successful merge with the same
                   \* arguments, source and target untouched in between
  sql_ops,         \* sql_ops[n]: the n-th handle the caller constructs itself
  db_url,          \* db_url[n]: the directory handle n was constructed on
  scope,           \* scope[n]: where handle n stands relative to its with-block
  call,            \* the caller's most recent call on one of its handles
  disposals,       \* disposals[n]: calls of engine.dispose() on handle n's engine
  ncalls,          \* data calls issued so far on the caller's handles
  kwargs,          \* kwargs[k]: keyword arguments of the k-th DefectInfo(...) call
  made             \* the DefectInfo records constructed from kwargs so far

frame == <<pc, args, i, source_ops, target_ops, source_defects, source_repairds,
           exc, failed, log, pre, post1>>
api   == <<sql_ops, db_url, scope, call, disposals, ncalls>>
ident == <<kwargs, made>>
vars == <<db, nops, nmerges, last, frame, api, ident>>

EmptyDb == [s \in Stores |-> [defect |-> {}, repaird |-> {}]]
NoCall  == [op |-> "none", store |-> "none", id |-> 0, raised |-> "none"]
NoArgs  == [delete_defect_ids |-> <<>>, delete_repaird_ids |-> <<>>]
NoPost  == [valid |-> FALSE, target |-> EmptyDb["target"]]

\* Lists of identities of length at most MaxDel; None and [] take the same
\* branch of `if delete_defect_ids:` and are both the empty list here.
IdLists == UNION {[1..n -> Ids] : n \in 0..MaxDel}

InitMerge ==
  /\ nops = 0
  /\ nmerges = 0
  /\ last = NoCall
  /\ pc = "idle"
  /\ args = NoArgs
  /\ i = 1
  /\ source_ops = Unbound
  /\ target_ops = Unbound
  /\ source_defects = <<>>
  /\ source_repairds = <<>>
  /\ exc = [kind |-> "none", at |-> "none"]
  /\ failed = "none"
  /\ log = <<>>
  /\ pre = EmptyDb
  /\ post1 = NoPost

\* The directory the caller's own handles open.
ApiStore == "target"

\* The db_url arguments of the caller: that directory, and a path under which
\* no database file can be opened or created.
DbUrls == {ApiStore, "/invalid/path"}

\* No call on one of the caller's handles yet.
NoApiCall ==
  [op |-> "none", h |-> 0, arg |-> <<>>, raised |-> "none", ret |-> None,
   before |-> EmptyDb[ApiStore]]

InitApi ==
  /\ sql_ops = [n \in Handles |-> Unbound]
  /\ db_url = [n \in Handles |-> "none"]
  /\ scope = [n \in Handles |-> "none"]
  /\ call = NoApiCall
  /\ disposals = [n \in Handles |-> 0]
  /\ ncalls = 0

InitIdent ==
  /\ kwargs = <<>>
  /\ made = <<>>

Init == db = EmptyDb /\ InitMerge /\ InitApi /\ InitIdent

\* The caller is outside merge_target_database.
Outside == pc \in {"idle", "done"}

\* What a record-store call of the caller leaves of the last merge: nothing.
ForgetMerge ==
  /\ pc' = "idle"
  /\ args' = NoArgs
  /\ i' = 1
  /\ source_ops' = Unbound
  /\ target_ops' = Unbound
  /\ source_defects' = <<>>
  /\ source_repairds' = <<>>
  /\ exc' = [kind |-> "none", at |-> "none"]
  /\ failed' = "none"
  /\ log' = <<>>
  /\ pre' = EmptyDb
  /\ post1' = NoPost

\* ------------------------------------------------- the caller's own calls
\* insert_defect_info on an open handle of store s.
InsertDefectInfo(s, obj) ==
  /\ Outside
  /\ UNCHANGED <<api, ident>>
  /\ nops < MaxOps
  /\ LET r == insert_defect_info(db[s], obj)
     IN  /\ db' = [db EXCEPT ![s] = r.db]
         /\ last' = [op |-> "insert_defect_info", store |-> s, id |-> obj.id,
                     raised |-> r.raised]
  /\ nops' = nops + 1
  /\ UNCHANGED nmerges
  /\ ForgetMerge

\* insert_repaird_info on an open handle of store s.
InsertRepairdInfo(s, obj) ==
  /\ Outside
  /\ UNCHANGED <<api, ident>>
  /\ nops < MaxOps
  /\ LET r == insert_repaird_info(db[s], obj)
     IN  /\ db' = [db EXCEPT ![s] = r.db]
         /\ last' = [op |-> "insert_repaird_info", store |-> s, id |-> obj.id,
                     raised |-> r.raised]
  /\ nops' = nops + 1
  /\ UNCHANGED nmerges
  /\ ForgetMerge

\* ------------------------------------------------ merge_target_database
NoExc == [kind |-> "none", at |-> "none"]

\* Mutant of Body: the Repair table is synchronised before the Defect table.
Body_repaird_first ==
  << "ctor_source", "ctor_target",
     "source_create_tables", "target_create_tables",
     "get_all_repaird_info", "merge_repaird_info_batch", "delete_repaird_info",
     "get_all_defect_info", "merge_insert_defect_infos", "delete_defect_info",
     "close_source", "close_target", "done" >>

\* Mutant of Body: target is pruned before source's Defect table is read.
Body_prune_first ==
  << "ctor_source", "ctor_target",
     "source_create_tables", "target_create_tables",
     "delete_defect_info", "get_all_defect_info", "merge_insert_defect_infos",
     "get_all_repaird_info", "merge_repaird_info_batch", "delete_repaird_info",
     "close_source", "close_target", "done" >>

\* The calls merge_target_database makes, in the order of its body.
Body ==
  << "ctor_source", "ctor_target",
     "source_create_tables", "target_create_tables",
     "get_all_defect_info", "merge_insert_defect_infos", "delete_defect_info",
     "get_all_repaird_info", "merge_repaird_info_batch", "delete_repaird_info",
     "close_source", "close_target", "done" >>

\* How often statement p runs with delete lists a: the two deletion loops run
\* once per listed id, and not at all for an empty (or None) list.
Turns(p, a) ==
  CASE p = "delete_defect_info"  -> Len(a.delete_defect_ids)
    [] p = "delete_repaird_info" -> Len(a.delete_repaird_ids)
    [] OTHER                     -> 1

\* The statement reached when turn k of call p completes: the next turn of
\* its loop, or the next statement of the body that runs at all.
AfterStep(p, a, k) ==
  IF k < Turns(p, a)
    THEN [pc |-> p, i |-> k + 1]
    ELSE LET n == CHOOSE m \in DOMAIN Body : Body[m] = p
             q == CHOOSE m \in (n + 1)..Len(Body) :
                    /\ Turns(Body[m], a) > 0
                    /\ \A m2 \in (n + 1)..(m - 1) : Turns(Body[m2], a) = 0
         IN  [pc |-> Body[q], i |-> 1]

\* Where control goes when call p raises: the constructors run before the
\* try statement, the two close calls inside its finally clause, every other
\* call inside the try block.
OnRaise(p) ==
  IF p \in {"ctor_source", "ctor_target", "close_source", "close_target"}
    THEN "done"
    ELSE "close_source"

\* Mutant of Outcome: an error of the storage is swallowed.
Outcome_swallowed(h, fault) ==
  IF check_connection_raises(h) THEN "RuntimeError" ELSE "none"

\* How a call on handle h ends: _check_connection first, then the storage.
Outcome(h, fault) ==
  IF check_connection_raises(h) THEN "RuntimeError"
  ELSE IF fault THEN "StorageError"
  ELSE "none"

Proceed(p) ==
  /\ pc' = AfterStep(p, args, i).pc
  /\ i' = AfterStep(p, args, i).i
  /\ log' = Append(log, p)
  /\ UNCHANGED <<exc, failed>>

Raise(p, kind) ==
  /\ pc' = OnRaise(p)
  /\ exc' = [kind |-> kind, at |-> p]
  /\ failed' = IF failed = "none" THEN p ELSE failed
  /\ UNCHANGED <<i, log>>

\* The caller calls merge_target_database("source", "target", db_name, a...).
MergeStart(a) ==
  /\ Outside
  /\ UNCHANGED <<api, ident>>
  /\ pc' = "ctor_source"
  /\ args' = a
  /\ i' = 1
  /\ source_ops' = Unbound
  /\ target_ops' = Unbound
  /\ source_defects' = <<>>
  /\ source_repairds' = <<>>
  /\ exc' = NoExc
  /\ failed' = "none"
  /\ log' = <<>>
  /\ pre' = db
  /\ post1' = IF pc = "done" /\ exc = NoExc /\ a = args
                THEN [valid |-> TRUE, target |-> db["target"]]
                ELSE NoPost
  /\ last' = NoCall
  /\ nmerges < MaxMerges
  /\ nmerges' = nmerges + 1
  /\ UNCHANGED <<db, nops>>

\* source_ops = SqlOperations(db_url=source_db_url, db_name=db_name)
CtorSource ==
  /\ pc = "ctor_source"
  /\ UNCHANGED <<api, ident>>
  /\ \E fault \in BOOLEAN :
       IF fault
         THEN Raise("ctor_source", "StorageError") /\ UNCHANGED source_ops
         ELSE Proceed("ctor_source") /\ source_ops' = SqlOperations_init
  /\ UNCHANGED <<db, nops, nmerges, last, args, target_ops, source_defects, source_repairds,
                 pre, post1>>

\* target_ops = SqlOperations(db_url=target_db_url, db_name=db_name)
CtorTarget ==
  /\ pc = "ctor_target"
  /\ UNCHANGED <<api, ident>>
  /\ \E fault \in BOOLEAN :
       IF fault
         THEN Raise("ctor_target", "StorageError") /\ UNCHANGED target_ops
         ELSE Proceed("ctor_target") /\ target_ops' = SqlOperations_init
  /\ UNCHANGED <<db, nops, nmerges, last, args, source_ops, source_defects, source_repairds,
                 pre, post1>>

\* source_ops.create_tables(): CREATE TABLE IF NOT EXISTS, no row is touched.
SourceCreateTables ==
  /\ pc = "source_create_tables"
  /\ UNCHANGED <<api, ident>>
  /\ \E fault \in BOOLEAN :
       LET o == Outcome(source_ops, fault)
       IN  IF o # "none" THEN Raise("source_create_tables", o)
                         ELSE Proceed("source_create_tables")
  /\ UNCHANGED <<db, nops, nmerges, last, args, source_ops, target_ops, source_defects,
                 source_repairds, pre, post1>>

\* target_ops.create_tables()
TargetCreateTables ==
  /\ pc = "target_create_tables"
  /\ UNCHANGED <<api, ident>>
  /\ \E fault \in BOOLEAN :
       LET o == Outcome(target_ops, fault)
       IN  IF o # "none" THEN Raise("target_create_tables", o)
                         ELSE Proceed("target_create_tables")
  /\ UNCHANGED <<db, nops, nmerges, last, args, source_ops, target_ops, source_defects,
                 source_repairds, pre, post1>>

\* source_defects = source_ops.get_all_defect_info()
GetAllDefectInfo ==
  /\ pc = "get_all_defect_info"
  /\ UNCHANGED <<api, ident>>
  /\ \E fault \in BOOLEAN :
       LET o == Outcome(source_ops, fault)
       IN  IF o # "none"
             THEN Raise("get_all_defect_info", o) /\ UNCHANGED source_defects
             ELSE /\ Proceed("get_all_defect_info")
                  /\ source_defects' \in get_all_defect_info(db["source"])
  /\ UNCHANGED <<db, nops, nmerges, last, args, source_ops, target_ops, source_repairds,
                 pre, post1>>

\* target_ops.merge_insert_defect_infos(source_defects)
MergeInsertDefectInfos ==
  /\ pc = "merge_insert_defect_infos"
  /\ UNCHANGED <<api, ident>>
  /\ \E fault \in BOOLEAN :
       LET o == Outcome(target_ops, fault)
           r == merge_insert_defect_infos(db["target"], source_defects)
       IN  IF o # "none"
             THEN Raise("merge_insert_defect_infos", o) /\ UNCHANGED db
           ELSE IF r.raised # "none"
             THEN Raise("merge_insert_defect_infos", r.raised) /\ UNCHANGED db
           ELSE /\ Proceed("merge_insert_defect_infos")
                /\ db' = [db EXCEPT !["target"] = r.db]
  /\ UNCHANGED <<nops, nmerges, last, args, source_ops, target_ops, source_defects,
                 source_repairds, pre, post1>>

\* Mutant of DeleteDefectInfo: the id is deleted in source as well.
DeleteDefectInfo_in_both ==
  /\ pc = "delete_defect_info"
  /\ UNCHANGED <<api, ident>>
  /\ \E fault \in BOOLEAN :
       LET o == Outcome(target_ops, fault)
           r == delete_defect_info(db["target"], args.delete_defect_ids[i])
           q == delete_defect_info(db["source"], args.delete_defect_ids[i])
       IN  IF o # "none"
             THEN Raise("delete_defect_info", o) /\ UNCHANGED db
             ELSE /\ Proceed("delete_defect_info")
                  /\ db' = [db EXCEPT !["target"] = r.db, !["source"] = q.db]
  /\ UNCHANGED <<nops, nmerges, last, args, source_ops, target_ops, source_defects,
                 source_repairds, pre, post1>>

\* One turn of `for defect_id in delete_defect_ids:
\*                  target_ops.delete_defect_info(defect_id)`.
DeleteDefectInfo ==
  /\ pc = "delete_defect_info"
  /\ UNCHANGED <<api, ident>>
  /\ \E fault \in BOOLEAN :
       LET o == Outcome(target_ops, fault)
           r == delete_defect_info(db["target"], args.delete_defect_ids[i])
       IN  IF o # "none"
             THEN Raise("delete_defect_info", o) /\ UNCHANGED db
             ELSE /\ Proceed("delete_defect_info")
                  /\ db' = [db EXCEPT !["target"] = r.db]
  /\ UNCHANGED <<nops, nmerges, last, args, source_ops, target_ops, source_defects,
                 source_repairds, pre, post1>>

\* source_repairds = source_ops.get_all_repaird_info()
GetAllRepairdInfo ==
  /\ pc = "get_all_repaird_info"
  /\ UNCHANGED <<api, ident>>
  /\ \E fault \in BOOLEAN :
       LET o == Outcome(source_ops, fault)
       IN  IF o # "none"
             THEN Raise("get_all_repaird_info", o) /\ UNCHANGED source_repairds
             ELSE /\ Proceed("get_all_repaird_info")
                  /\ source_repairds' \in get_all_repaird_info(db["source"])
  /\ UNCHANGED <<db, nops, nmerges, last, args, source_ops, target_ops, source_defects,
                 pre, post1>>

\* target_ops.merge_repaird_info_batch(source_repairds)
MergeRepairdInfoBatch ==
  /\ pc = "merge_repaird_info_batch"
  /\ UNCHANGED <<api, ident>>
  /\ \E fault \in BOOLEAN :
       LET o == Outcome(target_ops, fault)
           r == merge_repaird_info_batch(db["target"], source_repairds)
       IN  IF o # "none"
             THEN Raise("merge_repaird_info_batch", o) /\ UNCHANGED db
           ELSE IF r.raised # "none"
             THEN Raise("merge_repaird_info_batch", r.raised) /\ UNCHANGED db
           ELSE /\ Proceed("merge_repaird_info_batch")
                /\ db' = [db EXCEPT !["target"] = r.db]
  /\ UNCHANGED <<nops, nmerges, last, args, source_ops, target_ops, source_defects,
                 source_repairds, pre, post1>>

\* One turn of `for repaird_id in delete_repaird_ids:
\*                  target_ops.delete_repaird_info(repaird_id)`.
DeleteRepairdInfo ==
  /\ pc = "delete_repaird_info"
  /\ UNCHANGED <<api, ident>>
  /\ \E fault \in BOOLEAN :
       LET o == Outcome(target_ops, fault)
           r == delete_repaird_info(db["target"], args.delete_repaird_ids[i])
       IN  IF o # "none"
             THEN Raise("delete_repaird_info", o) /\ UNCHANGED db
             ELSE /\ Proceed("delete_repaird_info")
                  /\ db' = [db EXCEPT !["target"] = r.db]
  /\ UNCHANGED <<nops, nmerges, last, args, source_ops, target_ops, source_defects,
                 source_repairds, pre, post1>>

\* finally: source_ops.close().  An error raised here replaces the one in
\* flight and target_ops.close() is not reached.
CloseSource ==
  /\ pc = "close_source"
  /\ UNCHANGED <<api, ident>>
  /\ \E dispose_fails \in BOOLEAN :
       LET r == close(source_ops, dispose_fails)
       IN  /\ source_ops' = r.handle
           /\ IF r.raised
                THEN /\ Raise("close_source", "StorageError")
                     /\ source_defects' = <<>>
                     /\ source_repairds' = <<>>
                ELSE /\ pc' = AfterStep("close_source", args, i).pc
                     /\ UNCHANGED <<i, log, exc, failed, source_defects, source_repairds>>
  /\ UNCHANGED <<db, nops, nmerges, last, args, target_ops, pre, post1>>

\* finally: target_ops.close(), then the function returns or re-raises the
\* exception in flight; its locals are gone.
CloseTarget ==
  /\ pc = "close_target"
  /\ UNCHANGED <<api, ident>>
  /\ \E dispose_fails \in BOOLEAN :
       LET r == close(target_ops, dispose_fails)
       IN  /\ target_ops' = r.handle
           /\ IF r.raised
                THEN Raise("close_target", "StorageError")
                ELSE /\ pc' = AfterStep("close_target", args, i).pc
                     /\ UNCHANGED <<i, log, exc, failed>>
  /\ source_defects' = <<>>
  /\ source_repairds' = <<>>
  /\ UNCHANGED <<db, nops, nmerges, last, args, source_ops, pre, post1>>

\* ------------------------------------------------------------ specification
Next ==
  \/ \E s \in Stores, id \in Ids, x \in Vals : InsertDefectInfo(s, DefectInfo(id, x, <<>>))
  \/ \E s \in Stores, id \in Ids, b \in BOOLEAN : InsertRepairdInfo(s, RepairdInfo(id, b))
  \/ \E d \in IdLists, r \in IdLists :
       MergeStart([delete_defect_ids |-> d, delete_repaird_ids |-> r])
  \/ CtorSource
  \/ CtorTarget
  \/ SourceCreateTables
  \/ TargetCreateTables
  \/ GetAllDefectInfo
  \/ MergeInsertDefectInfos
  \/ DeleteDefectInfo
  \/ GetAllRepairdInfo
  \/ MergeRepairdInfoBatch
  \/ DeleteRepairdInfo
  \/ CloseSource
  \/ CloseTarget

Spec == Init /\ [][Next]_vars

\* ------------------------------------------- the caller's handles and calls
\* The records and lists the caller passes to its handles.
DefectObjs   == {DefectInfo(id, x, <<>>) : id \in Ids, x \in Vals}
RepairdObjs  == {RepairdInfo(id, b) : id \in Ids, b \in BOOLEAN}
DefectLists  == UNION {[1..n -> DefectObjs] : n \in 0..MaxBatch}
RepairdLists == UNION {[1..n -> RepairdObjs] : n \in 0..MaxBatch}
IdBatches    == UNION {[1..n -> Ids] : n \in 0..MaxBatch}

\* The exceptions the body of a with-block ends with ("none": it completes).
BlockExits == {"none", "ValueError"}

\* The tables a database file can hold: at most one row per primary key.
Tables(rows) == {T \in SUBSET rows : \A a, b \in T : a.id = b.id => a = b}

\* The database files the caller's handles can find in their directory.
Databases ==
  {[defect |-> d, repaird |-> r] :
     d \in Tables({DefectInfoTable(id, x) : id \in Ids, x \in Vals}),
     r \in Tables({RepairdInfoTable(id, b) : id \in Ids, b \in BOOLEAN})}

\* The caller starts on a directory whose database file holds any tables.
ApiInit ==
  /\ db \in {[EmptyDb EXCEPT ![ApiStore] = D] : D \in Databases}
  /\ InitMerge
  /\ InitApi
  /\ InitIdent

\* Mutant of ReachesStorage: no operation looks at the directory.
ReachesStorage_never(op, arg) == FALSE

\* The engine connects on the first statement a Session emits: an operation
\* given an empty list adds, merges or looks up nothing and commits without a
\* connection; every other operation connects.
ReachesStorage(op, arg) ==
  ~(op \in {"insert_defect_infos", "insert_defect_info_batch", "insert_repaird_info_batch",
            "merge_insert_defect_infos", "merge_repaird_info_batch",
            "delete_defect_infos", "delete_repaird_infos"}
      /\ arg = <<>>)

\* sql_ops[n].op(arg): _check_connection, then the operation in its own
\* session.  db2, raised2 and ret2 are what the operation makes of the
\* database on an open handle whose storage works: the database it leaves,
\* the error it raises and the value it returns.  A storage fault ends the
\* session before its commit.  The storage fails when the handle's directory
\* holds no database file that can be opened and the operation connects.  The
\* call is recorded with its argument, whether the storage failed during it,
\* what it raised and returned, and the database it found.
Invoke(n, op, arg, fault, db2, raised2, ret2) ==
  LET fails == fault \/ (db_url[n] # ApiStore /\ ReachesStorage(op, arg))
      o == Outcome(sql_ops[n], fails)
  IN  [db   |-> [db EXCEPT ![ApiStore] = IF o = "none" THEN db2 ELSE @],
       call |-> [op |-> op, h |-> n, arg |-> arg, fault |-> fails,
                 raised |-> IF o # "none" THEN o ELSE raised2,
                 ret |-> IF o = "none" /\ raised2 = "none" THEN ret2 ELSE None,
                 before |-> db[ApiStore]]]

\* The caller may issue a data call on handle n.
MayCall(n) ==
  /\ pc = "idle"
  /\ sql_ops[n].bound
  /\ ncalls < MaxCalls

\* What a data call leaves alone.
DataCallFrame ==
  /\ ncalls' = ncalls + 1
  /\ UNCHANGED <<sql_ops, db_url, scope, disposals, nops, nmerges, last, frame, ident>>

\* sql_ops = SqlOperations(db_url=url): create_engine builds the engine from
\* the URL and connects to nothing, so the directory is not looked at.
Construct(n, url) ==
  /\ pc = "idle"
  /\ ~sql_ops[n].bound
  /\ sql_ops' = [sql_ops EXCEPT ![n] = SqlOperations_init]
  /\ db_url' = [db_url EXCEPT ![n] = url]
  /\ call' = [op |-> "__init__", h |-> n, arg |-> <<url>>, raised |-> "none", ret |-> None,
              before |-> db[ApiStore]]
  /\ UNCHANGED <<db, scope, disposals, ncalls, nops, nmerges, last, frame, ident>>

\* sql_ops.close()
Close(n, dispose_fails) ==
  /\ pc = "idle"
  /\ sql_ops[n].bound
  /\ LET r == close(sql_ops[n], dispose_fails)
     IN  /\ sql_ops' = [sql_ops EXCEPT ![n] = r.handle]
         /\ disposals' = [disposals EXCEPT ![n] = @ + r.disposed]
         /\ call' = [op |-> "close", h |-> n, arg |-> <<>>,
                     raised |-> IF r.raised THEN "StorageError" ELSE "none",
                     ret |-> None, before |-> db[ApiStore]]
  /\ UNCHANGED <<db, db_url, scope, ncalls, nops, nmerges, last, frame, ident>>

\* with SqlOperations(db_url=url) as sql_ops: the block is entered.
WithEnter(n, url) ==
  /\ pc = "idle"
  /\ ~sql_ops[n].bound
  /\ sql_ops' = [sql_ops EXCEPT ![n] = SqlOperations_enter(SqlOperations_init)]
  /\ db_url' = [db_url EXCEPT ![n] = url]
  /\ scope' = [scope EXCEPT ![n] = "inside"]
  /\ call' = [op |-> "__enter__", h |-> n, arg |-> <<url>>, raised |-> "none", ret |-> None,
              before |-> db[ApiStore]]
  /\ UNCHANGED <<db, disposals, ncalls, nops, nmerges, last, frame, ident>>

\* The block ends, normally or by the exception e; __exit__ runs and the with
\* statement raises the error of __exit__, or else e unless __exit__
\* suppressed it.
WithExit(n, e, dispose_fails) ==
  /\ pc = "idle"
  /\ scope[n] = "inside"
  /\ LET r == SqlOperations_exit(sql_ops[n], e, dispose_fails)
     IN  /\ sql_ops' = [sql_ops EXCEPT ![n] = r.handle]
         /\ disposals' = [disposals EXCEPT ![n] = @ + r.disposed]
         /\ call' = [op |-> "with", h |-> n, arg |-> e,
                     raised |-> IF r.raised THEN "StorageError"
                                ELSE IF r.suppress THEN "none" ELSE e,
                     ret |-> None, before |-> db[ApiStore]]
  /\ scope' = [scope EXCEPT ![n] = "exited"]
  /\ UNCHANGED <<db, db_url, ncalls, nops, nmerges, last, frame, ident>>

\* sql_ops.create_tables()
OpsCreateTables(n, fault) ==
  /\ MayCall(n)
  /\ LET v == Invoke(n, "create_tables", <<>>, fault, create_tables(db[ApiStore]),
                     "none", None)
     IN  db' = v.db /\ call' = v.call
  /\ DataCallFrame

\* sql_ops.insert_defect_info(obj)
OpsInsertDefectInfo(n, obj, fault) ==
  /\ MayCall(n)
  /\ LET r == insert_defect_info(db[ApiStore], obj)
         v == Invoke(n, "insert_defect_info", <<obj>>, fault, r.db, r.raised, None)
     IN  db' = v.db /\ call' = v.call
  /\ DataCallFrame

\* sql_ops.insert_defect_infos(objs)
OpsInsertDefectInfos(n, objs, fault) ==
  /\ MayCall(n)
  /\ LET r == insert_defect_infos(db[ApiStore], objs)
         v == Invoke(n, "insert_defect_infos", objs, fault, r.db, r.raised, None)
     IN  db' = v.db /\ call' = v.call
  /\ DataCallFrame

\* sql_ops.insert_defect_info_batch(objs)
OpsInsertDefectInfoBatch(n, objs, fault) ==
  /\ MayCall(n)
  /\ LET r == insert_defect_info_batch(db[ApiStore], objs)
         v == Invoke(n, "insert_defect_info_batch", objs, fault, r.db, r.raised, None)
     IN  db' = v.db /\ call' = v.call
  /\ DataCallFrame

\* sql_ops.merge_insert_defect_info(obj)
OpsMergeInsertDefectInfo(n, obj, fault) ==
  /\ MayCall(n)
  /\ LET r == merge_insert_defect_info(db[ApiStore], obj)
         v == Invoke(n, "merge_insert_defect_info", <<obj>>, fault, r.db, r.raised, None)
     IN  db' = v.db /\ call' = v.call
  /\ DataCallFrame

\* sql_ops.merge_insert_defect_infos(objs)
OpsMergeInsertDefectInfos(n, objs, fault) ==
  /\ MayCall(n)
  /\ LET r == merge_insert_defect_infos(db[ApiStore], objs)
         v == Invoke(n, "merge_insert_defect_infos", objs, fault, r.db, r.raised, None)
     IN  db' = v.db /\ call' = v.call
  /\ DataCallFrame

\* sql_ops.insert_repaird_info(obj)
OpsInsertRepairdInfo(n, obj, fault) ==
  /\ MayCall(n)
  /\ LET r == insert_repaird_info(db[ApiStore], obj)
         v == Invoke(n, "insert_repaird_info", <<obj>>, fault, r.db, r.raised, None)
     IN  db' = v.db /\ call' = v.call
  /\ DataCallFrame

\* sql_ops.insert_repaird_info_batch(objs)
OpsInsertRepairdInfoBatch(n, objs, fault) ==
  /\ MayCall(n)
  /\ LET r == insert_repaird_info_batch(db[ApiStore], objs)
         v == Invoke(n, "insert_repaird_info_batch", objs, fault, r.db, r.raised, None)
     IN  db' = v.db /\ call' = v.call
  /\ DataCallFrame

\* sql_ops.merge_repaird_info_batch(objs)
OpsMergeRepairdInfoBatch(n, objs, fault) ==
  /\ MayCall(n)
  /\ LET r == merge_repaird_info_batch(db[ApiStore], objs)
         v == Invoke(n, "merge_repaird_info_batch", objs, fault, r.db, r.raised, None)
     IN  db' = v.db /\ call' = v.call
  /\ DataCallFrame

\* sql_ops.get_defect_info_by_id(id)
OpsGetDefectInfoById(n, id, fault) ==
  /\ MayCall(n)
  /\ LET v == Invoke(n, "get_defect_info_by_id", <<id>>, fault, db[ApiStore], "none",
                     get_defect_info_by_id(db[ApiStore], id))
     IN  db' = v.db /\ call' = v.call
  /\ DataCallFrame

\* sql_ops.get_all_defect_info()
OpsGetAllDefectInfo(n, fault) ==
  /\ MayCall(n)
  /\ \E l \in get_all_defect_info(db[ApiStore]) :
       LET v == Invoke(n, "get_all_defect_info", <<>>, fault, db[ApiStore], "none", l)
       IN  db' = v.db /\ call' = v.call
  /\ DataCallFrame

\* sql_ops.get_repaird_info_by_id(id)
OpsGetRepairdInfoById(n, id, fault) ==
  /\ MayCall(n)
  /\ LET v == Invoke(n, "get_repaird_info_by_id", <<id>>, fault, db[ApiStore], "none",
                     get_repaird_info_by_id(db[ApiStore], id))
     IN  db' = v.db /\ call' = v.call
  /\ DataCallFrame

\* sql_ops.get_all_repaird_info()
OpsGetAllRepairdInfo(n, fault) ==
  /\ MayCall(n)
  /\ \E l \in get_all_repaird_info(db[ApiStore]) :
       LET v == Invoke(n, "get_all_repaird_info", <<>>, fault, db[ApiStore], "none", l)
       IN  db' = v.db /\ call' = v.call
  /\ DataCallFrame

\* sql_ops.delete_defect_info(id)
OpsDeleteDefectInfo(n, id, fault) ==
  /\ MayCall(n)
  /\ LET r == delete_defect_info(db[ApiStore], id)
         v == Invoke(n, "delete_defect_info", <<id>>, fault, r.db, "none", r.ret)
     IN  db' = v.db /\ call' = v.call
  /\ DataCallFrame

\* sql_ops.delete_defect_infos(ids)
OpsDeleteDefectInfos(n, ids, fault) ==
  /\ MayCall(n)
  /\ LET r == delete_defect_infos(db[ApiStore], ids)
         v == Invoke(n, "delete_defect_infos", ids, fault, r.db, "none", r.ret)
     IN  db' = v.db /\ call' = v.call
  /\ DataCallFrame

\* sql_ops.delete_repaird_info(id)
OpsDeleteRepairdInfo(n, id, fault) ==
  /\ MayCall(n)
  /\ LET r == delete_repaird_info(db[ApiStore], id)
         v == Invoke(n, "delete_repaird_info", <<id>>, fault, r.db, "none", r.ret)
     IN  db' = v.db /\ call' = v.call
  /\ DataCallFrame

\* sql_ops.delete_repaird_infos(ids)
OpsDeleteRepairdInfos(n, ids, fault) ==
  /\ MayCall(n)
  /\ LET r == delete_repaird_infos(db[ApiStore], ids)
         v == Invoke(n, "delete_repaird_infos", ids, fault, r.db, "none", r.ret)
     IN  db' = v.db /\ call' = v.call
  /\ DataCallFrame

\* The caller works on its own handles; no merge runs.
ApiNext ==
  \/ \E n \in Handles, u \in DbUrls : Construct(n, u)
  \/ \E n \in Handles, f \in BOOLEAN : Close(n, f)
  \/ \E n \in Handles, u \in DbUrls : WithEnter(n, u)
  \/ \E n \in Handles, e \in BlockExits, f \in BOOLEAN : WithExit(n, e, f)
  \/ \E n \in Handles, f \in BOOLEAN : OpsCreateTables(n, f)
  \/ \E n \in Handles, o \in DefectObjs, f \in BOOLEAN : OpsInsertDefectInfo(n, o, f)
  \/ \E n \in Handles, l \in DefectLists, f \in BOOLEAN : OpsInsertDefectInfos(n, l, f)
  \/ \E n \in Handles, l \in DefectLists, f \in BOOLEAN : OpsInsertDefectInfoBatch(n, l, f)
  \/ \E n \in Handles, o \in DefectObjs, f \in BOOLEAN : OpsMergeInsertDefectInfo(n, o, f)
  \/ \E n \in Handles, l \in DefectLists, f \in BOOLEAN : OpsMergeInsertDefectInfos(n, l, f)
  \/ \E n \in Handles, o \in RepairdObjs, f \in BOOLEAN : OpsInsertRepairdInfo(n, o, f)
  \/ \E n \in Handles, l \in RepairdLists, f \in BOOLEAN : OpsInsertRepairdInfoBatch(n, l, f)
  \/ \E n \in Handles, l \in RepairdLists, f \in BOOLEAN : OpsMergeRepairdInfoBatch(n, l, f)
  \/ \E n \in Handles, id \in Ids, f \in BOOLEAN : OpsGetDefectInfoById(n, id, f)
  \/ \E n \in Handles, f \in BOOLEAN : OpsGetAllDefectInfo(n, f)
  \/ \E n \in Handles, id \in Ids, f \in BOOLEAN : OpsGetRepairdInfoById(n, id, f)
  \/ \E n \in Handles, f \in BOOLEAN : OpsGetAllRepairdInfo(n, f)
  \/ \E n \in Handles, id \in Ids, f \in BOOLEAN : OpsDeleteDefectInfo(n, id, f)
  \/ \E n \in Handles, l \in IdBatches, f \in BOOLEAN : OpsDeleteDefectInfos(n, l, f)
  \/ \E n \in Handles, id \in Ids, f \in BOOLEAN : OpsDeleteRepairdInfo(n, id, f)
  \/ \E n \in Handles, l \in IdBatches, f \in BOOLEAN : OpsDeleteRepairdInfos(n, l, f)

ApiSpec == ApiInit /\ [][ApiNext]_vars

\* --------------------------------------------------- DefectInfo identities
\* Strings are sequences of characters.  The lot numbers, board indexes and
\* defect numbers given to DefectInfo(...), and the ids given explicitly; an
\* id that is not given at all is id_given = FALSE.
Lots      == {<<>>, <<"A">>, <<"A", "_", "1">>, <<"A", "_", "1", "_", "1">>}
Indexes   == {0, 1, MaxIndex}
IdStrings == {<<>>, <<"X">>}

Kwargs ==
  {[id_given |-> g, id |-> s, lot_number |-> l, current_board_index |-> b,
    defect_number |-> d] :
     g \in BOOLEAN, s \in IdStrings, l \in Lots, b \in Indexes, d \in Indexes}
  \ {k \in [id_given : {FALSE}, id : IdStrings \ {<<>>}, lot_number : Lots,
            current_board_index : Indexes, defect_number : Indexes] : TRUE}

\* str(n) of a non-negative int: its decimal digits.
RECURSIVE str(_)
str(n) ==
  LET digit == <<"0", "1", "2", "3", "4", "5", "6", "7", "8", "9">>[(n % 10) + 1]
  IN  IF n < 10 THEN <<digit>> ELSE str(n \div 10) \o <<digit>>

\* Mutant of namespace: the three parts are joined without a separator.
namespace_unseparated(lot_number, current_board_index, defect_number) ==
  lot_number \o str(current_board_index) \o str(defect_number)

\* f"{lot_number}_{current_board_index}_{defect_number}"
namespace(lot_number, current_board_index, defect_number) ==
  lot_number \o <<"_">> \o str(current_board_index) \o <<"_">> \o str(defect_number)

\* str(uuid5(NAMESPACE_DNS, name)): a hash of the name; two names give one
\* UUID only by a SHA-1 collision, which is left out: the UUID is the name
\* under a tag no given id carries.
uuid5(name) == <<"uuid5">> \o name

\* Mutant of generate_id_and_datetime: the id is generated whatever is given.
generate_id_always(values) ==
  [values EXCEPT !.id = uuid5(namespace(values.lot_number, values.current_board_index,
                                        values.defect_number))]

\* DefectInfo.generate_id_and_datetime, the id part: `if not values.get("id")`
\* is true for an id that is not given and for the empty string.
generate_id_and_datetime(values) ==
  IF ~values.id_given \/ values.id = <<>>
    THEN [values EXCEPT !.id = uuid5(namespace(values.lot_number,
                                               values.current_board_index,
                                               values.defect_number))]
    ELSE values

\* Two DefectInfo(...) calls with any keyword arguments are about to be made.
IdentInit ==
  /\ db = EmptyDb
  /\ InitMerge
  /\ InitApi
  /\ kwargs \in [1..2 -> Kwargs]
  /\ made = <<>>

\* DefectInfo(**kwargs[k]): the validator runs before the fields are set.
NewDefectInfo ==
  /\ Len(made) < Len(kwargs)
  /\ made' = Append(made, generate_id_and_datetime(kwargs[Len(made) + 1]))
  /\ UNCHANGED <<db, nops, nmerges, last, frame, api, kwargs>>

IdentNext == NewDefectInfo

IdentSpec == IdentInit /\ [][IdentNext]_vars

\* ------------------------------------------- records with their real fields
\* The caller constructs Defect Records with DefectInfo(...) and passes them
\* to a handle.  In this part x, the persisted fields of a record, is the
\* record of lot_number, current_board_index, defect_number and line_name
\* (line_name stands for the other columns), and ids are the generated ones.
RecordLots  == {<<"A">>, <<"B">>}
RecordNames == {"a", "b"}

\* f"{lot_number}_{current_board_index}", the label as api_client derives it.
board_number_label(lot_number, current_board_index) ==
  lot_number \o <<"_">> \o str(current_board_index)

\* The keyword arguments of the caller's DefectInfo(...) calls: no id, and the
\* board_number_label either left out (the default "") or given.
RecordKwargs ==
  UNION {{[id_given |-> FALSE, id |-> <<>>, lot_number |-> l, current_board_index |-> 1,
           defect_number |-> d, line_name |-> n, board_number_label |-> lab] :
            lab \in {<<>>, board_number_label(l, 1)}} :
         l \in RecordLots, d \in {1, 2}, n \in RecordNames}

\* DefectInfo(**values): the validator runs, then every field takes the value
\* given for it or its default.
DefectInfo_init(values) ==
  LET v == generate_id_and_datetime(values)
  IN  DefectInfo(v.id,
                 [lot_number |-> v.lot_number,
                  current_board_index |-> v.current_board_index,
                  defect_number |-> v.defect_number,
                  line_name |-> v.line_name],
                 v.board_number_label)

RecordObjs  == {DefectInfo_init(k) : k \in RecordKwargs}
RecordLists == UNION {[1..n -> RecordObjs] : n \in 0..MaxBatch}
RecordIds   == {o.id : o \in RecordObjs}

\* The database files the caller's handle can find: Defect rows written from
\* such records, any Repair rows.
RecordDatabases ==
  {[defect |-> d, repaird |-> r] :
     d \in Tables({schema_to_db_defect(o) : o \in RecordObjs}),
     r \in Tables({RepairdInfoTable(id, b) : id \in Ids, b \in BOOLEAN})}

\* Mutant of get_defect_info_by_lot: the WHERE clause is left out.
get_defect_info_by_lot_unfiltered(D, lot_number) ==
  {[k \in DOMAIN o |-> db_model_to_schema_defect(o[k])] : o \in Orders(D.defect)}

\* SqlOperations.get_defect_info_by_lot: the rows whose lot_number column
\* equals the argument, converted, in some order.
get_defect_info_by_lot(D, lot_number) ==
  {[k \in DOMAIN o |-> db_model_to_schema_defect(o[k])] :
     o \in Orders({r \in D.defect : r.x.lot_number = lot_number})}

RecordInit ==
  /\ db \in {[EmptyDb EXCEPT ![ApiStore] = D] : D \in RecordDatabases}
  /\ InitMerge
  /\ InitApi
  /\ InitIdent

\* sql_ops.get_defect_info_by_lot(lot_number)
OpsGetDefectInfoByLot(n, lot_number, fault) ==
  /\ MayCall(n)
  /\ \E l \in get_defect_info_by_lot(db[ApiStore], lot_number) :
       LET v == Invoke(n, "get_defect_info_by_lot", <<lot_number>>, fault, db[ApiStore],
                       "none", l)
       IN  db' = v.db /\ call' = v.call
  /\ DataCallFrame

\* The caller opens a handle and issues a call with such records; the storage
\* works.
RecordNext ==
  \/ \E n \in Handles : Construct(n, ApiStore)
  \/ \E n \in Handles, o \in RecordObjs : OpsInsertDefectInfo(n, o, FALSE)
  \/ \E n \in Handles, l \in RecordLists : OpsInsertDefectInfoBatch(n, l, FALSE)
  \/ \E n \in Handles, o \in RecordObjs : OpsMergeInsertDefectInfo(n, o, FALSE)
  \/ \E n \in Handles, o \in RepairdObjs : OpsInsertRepairdInfo(n, o, FALSE)
  \/ \E n \in Handles, l \in RepairdLists : OpsMergeRepairdInfoBatch(n, l, FALSE)
  \/ \E n \in Handles, id \in RecordIds : OpsGetDefectInfoById(n, id, FALSE)
  \/ \E n \in Handles, id \in Ids : OpsGetRepairdInfoById(n, id, FALSE)
  \/ \E n \in Handles : OpsGetAllDefectInfo(n, FALSE)
  \/ \E n \in Handles, l \in RecordLots : OpsGetDefectInfoByLot(n, l, FALSE)
  \/ \E n \in Handles, id \in RecordIds : OpsDeleteDefectInfo(n, id, FALSE)

RecordSpec == RecordInit /\ [][RecordNext]_vars

\* ------------------------------------------------------------------ claims
InList(l, id) == \E k \in DOMAIN l : l[k] = id

\* merge_target_database has returned without raising.
Succeeded == pc = "done" /\ exc = NoExc

\* The merge is running or has just ended (pre and args are those of the call).
InOrAfterMerge == pc # "idle"

\* C1: after a successful merge, every source row whose id is not in the
\* delete list of its kind is in target exactly once, with the source's
\* values, whether target had no such row or a row with other values.
C1_SourceWins ==
  Succeeded =>
    /\ \A r \in pre["source"].defect :
         ~InList(args.delete_defect_ids, r.id)
           => {t \in db["target"].defect : t.id = r.id} = {r}
    /\ \A r \in pre["source"].repaird :
         ~InList(args.delete_repaird_ids, r.id)
           => {t \in db["target"].repaird : t.id = r.id} = {r}

\* C1 witness: a successful merge overwrote a target Defect row that held
\* another value for the same id.
C1_Witness ==
  /\ Succeeded
  /\ \E r \in pre["source"].defect, t \in pre["target"].defect :
       /\ r.id = t.id /\ r.x # t.x
       /\ ~InList(args.delete_defect_ids, r.id)
       /\ r \in db["target"].defect

\* C2: after a successful merge, target holds no Defect row whose id is in
\* delete_defect_ids and no Repair row whose id is in delete_repaird_ids, also
\* when source holds that id; a deletion only ever fails on a storage error.
C2_DeletedIdsGone ==
  /\ Succeeded =>
       /\ \A t \in db["target"].defect : ~InList(args.delete_defect_ids, t.id)
       /\ \A t \in db["target"].repaird : ~InList(args.delete_repaird_ids, t.id)
  /\ failed \in {"delete_defect_info", "delete_repaird_info"} => exc.kind = "StorageError"

\* C2 witness: a successful merge whose Defect delete list names an id that
\* source holds (upserted, then deleted) and whose Repair delete list names an
\* id that target never held (skipped).
C2_Witness ==
  /\ Succeeded
  /\ \E r \in pre["source"].defect : InList(args.delete_defect_ids, r.id)
  /\ \E id \in Ids :
       /\ InList(args.delete_repaird_ids, id)
       /\ \A t \in pre["target"].repaird \cup pre["source"].repaird : t.id # id

\* C3: during and after a merge, a target row whose id is neither in the
\* source table of its kind nor in the delete list of its kind is still there,
\* alone for its id and with its values; with empty delete lists no id
\* disappears from target.
C3_OthersUntouched ==
  InOrAfterMerge =>
    /\ \A t \in pre["target"].defect :
         (/\ \A r \in pre["source"].defect : r.id # t.id
          /\ ~InList(args.delete_defect_ids, t.id))
           => {u \in db["target"].defect : u.id = t.id} = {t}
    /\ \A t \in pre["target"].repaird :
         (/\ \A r \in pre["source"].repaird : r.id # t.id
          /\ ~InList(args.delete_repaird_ids, t.id))
           => {u \in db["target"].repaird : u.id = t.id} = {t}
    /\ args.delete_defect_ids = <<>> =>
         \A t \in pre["target"].defect : \E u \in db["target"].defect : u.id = t.id
    /\ args.delete_repaird_ids = <<>> =>
         \A t \in pre["target"].repaird : \E u \in db["target"].repaird : u.id = t.id

\* C3 witness: a successful merge changed target's Defect table and a Defect
\* row that is neither in source nor in the delete list stayed as it was.
C3_Witness ==
  /\ Succeeded
  /\ db["target"].defect # pre["target"].defect
  /\ \E t \in pre["target"].defect :
       /\ \A r \in pre["source"].defect : r.id # t.id
       /\ ~InList(args.delete_defect_ids, t.id)
       /\ t \in db["target"].defect

\* C4: a second merge with the same arguments, source and target untouched in
\* between, ends with target equal to its state after the first merge, and
\* raises nothing but a storage error of its own.
C4_Idempotent ==
  (pc = "done" /\ post1.valid) =>
    /\ exc.kind \in {"none", "StorageError"}
    /\ exc = NoExc => db["target"] = post1.target

\* C4 witness: the second of two successful merges, with a source row that is
\* upserted and a delete list that removes a row.
C4_Witness ==
  /\ Succeeded
  /\ post1.valid
  /\ pre["source"].defect # {}
  /\ args.delete_defect_ids # <<>>
  /\ db["target"].defect # {}

\* Position of a call in the order the merge is to follow.
Phase(p) ==
  CASE p = "ctor_source"               -> 1
    [] p = "ctor_target"               -> 2
    [] p = "source_create_tables"      -> 3
    [] p = "target_create_tables"      -> 4
    [] p = "get_all_defect_info"       -> 5
    [] p = "merge_insert_defect_infos" -> 6
    [] p = "delete_defect_info"        -> 7
    [] p = "get_all_repaird_info"      -> 8
    [] p = "merge_repaird_info_batch"  -> 9
    [] p = "delete_repaird_info"       -> 10
    [] OTHER                           -> 11

Count(l, p) == Cardinality({k \in DOMAIN l : l[k] = p})

\* C5: the calls a merge completes come in the order Defect upsert, Defect
\* deletions, Repair read, Repair upsert, Repair deletions: the Repair read and
\* every Repair step come after the Defect upsert and after all Defect
\* deletions, and within a kind the upsert precedes the deletions.
C5_DefectsFirst ==
  /\ \A a, b \in DOMAIN log : a < b => Phase(log[a]) <= Phase(log[b])
  /\ \A p \in {"get_all_defect_info", "merge_insert_defect_infos",
               "get_all_repaird_info", "merge_repaird_info_batch"} : Count(log, p) <= 1
  /\ Count(log, "delete_defect_info") > 0 => Count(log, "merge_insert_defect_infos") = 1
  /\ Count(log, "delete_repaird_info") > 0 => Count(log, "merge_repaird_info_batch") = 1
  /\ (\E k \in DOMAIN log : Phase(log[k]) \in 8..10) =>
       /\ Count(log, "merge_insert_defect_infos") = 1
       /\ Count(log, "delete_defect_info") = Len(args.delete_defect_ids)

\* C5 witness: a successful merge that ran all six kinds of step.
C5_Witness ==
  /\ Succeeded
  /\ \A p \in {"merge_insert_defect_infos", "delete_defect_info", "get_all_repaird_info",
               "merge_repaird_info_batch", "delete_repaird_info"} : Count(log, p) > 0

\* The calls that open or read the source store.
SourceCalls ==
  {"ctor_source", "source_create_tables", "get_all_defect_info", "get_all_repaird_info"}

\* The calls that write to the target store.
TargetCalls ==
  {"target_create_tables", "merge_insert_defect_infos", "delete_defect_info",
   "merge_repaird_info_batch", "delete_repaird_info"}

\* Table T after an upsert of the rows S, and after deleting the ids of list l.
Upserted(T, S) == {t \in T : \A r \in S : r.id # t.id} \cup S
Pruned(T, l) == {t \in T : ~InList(l, t.id)}

\* C6 as claimed: when opening or reading source fails at any point of the
\* merge, target is as it was when the merge was called.
C6_Original ==
  (pc = "done" /\ failed \in SourceCalls) => db["target"] = pre["target"]

\* C6 amended: when opening source, its schema creation or the read of its
\* Defect table fails, target is as it was when the merge was called; when the
\* read of its Repair table fails, target's Repair table is as it was and its
\* Defect table holds the completed Defect upsert and deletions.
C6_SourceFailure ==
  /\ failed \in {"ctor_source", "source_create_tables", "get_all_defect_info"}
       => db["target"] = pre["target"]
  /\ failed = "get_all_repaird_info" =>
       /\ db["target"].repaird = pre["target"].repaird
       /\ db["target"].defect =
            Pruned(Upserted(pre["target"].defect, pre["source"].defect),
                   args.delete_defect_ids)

\* C6 witness: a merge failed reading source's Defect table, with a Defect row
\* in source and a target Defect row named in the delete list.
C6_Witness ==
  /\ pc = "done"
  /\ failed = "get_all_defect_info"
  /\ pre["source"].defect # {}
  /\ \E t \in pre["target"].defect : InList(args.delete_defect_ids, t.id)

\* C7 as claimed: when merge_target_database has returned or raised, every
\* handle it constructed is closed.
C7_HandlesClosed ==
  pc = "done" =>
    /\ source_ops.bound => source_ops._closed /\ source_ops.engine = "disposed"
    /\ target_ops.bound => target_ops._closed /\ target_ops.engine = "disposed"

\* C8 as claimed: when a call on target fails, the merge raises that call's
\* error, no later call of the body has run, a failed upsert batch has
\* committed nothing and the calls completed before it stay committed.
C8_TargetFailure ==
  (pc = "done" /\ failed \in TargetCalls) =>
    /\ exc = [kind |-> "StorageError", at |-> failed]
    /\ \A k \in DOMAIN log : Phase(log[k]) <= Phase(failed)
    /\ failed \in {"target_create_tables", "merge_insert_defect_infos"}
         => db["target"] = pre["target"]
    /\ failed \in {"merge_repaird_info_batch", "delete_repaird_info"}
         => db["target"].defect =
              Pruned(Upserted(pre["target"].defect, pre["source"].defect),
                     args.delete_defect_ids)
    /\ failed = "merge_repaird_info_batch"
         => db["target"].repaird = pre["target"].repaird

\* C9: after a successful merge, for an id in delete_defect_ids and not in
\* delete_repaird_ids target's Repair rows of that id are those the Repair
\* upsert leaves, and for an id in delete_repaird_ids and not in
\* delete_defect_ids target's Defect rows of that id are those the Defect
\* upsert leaves.
C9_NoCascade ==
  Succeeded =>
    \A id \in Ids :
      /\ (InList(args.delete_defect_ids, id) /\ ~InList(args.delete_repaird_ids, id))
           => {t \in db["target"].repaird : t.id = id}
                = {t \in Upserted(pre["target"].repaird, pre["source"].repaird) : t.id = id}
      /\ (InList(args.delete_repaird_ids, id) /\ ~InList(args.delete_defect_ids, id))
           => {t \in db["target"].defect : t.id = id}
                = {t \in Upserted(pre["target"].defect, pre["source"].defect) : t.id = id}

\* C9 witness: a successful merge deleted target's Defect row of an id and
\* target still holds the Repair row of that id.
C9_Witness ==
  /\ Succeeded
  /\ \E id \in Ids :
       /\ InList(args.delete_defect_ids, id)
       /\ \E t \in pre["target"].defect : t.id = id
       /\ \A t \in db["target"].defect : t.id # id
       /\ \E t \in db["target"].repaird : t.id = id

\* C10: a strict insert of a record whose id is already in the table raises
\* IntegrityError and leaves the database as it was, with exactly one row for
\* that id.
C10_StrictInsert ==
  [][(/\ nops' = nops + 1
      /\ last'.op \in {"insert_defect_info", "insert_repaird_info"})
       => LET T  == IF last'.op = "insert_defect_info"
                      THEN db[last'.store].defect ELSE db[last'.store].repaird
              T2 == IF last'.op = "insert_defect_info"
                      THEN db'[last'.store].defect ELSE db'[last'.store].repaird
          IN  (\E r \in T : r.id = last'.id) =>
                /\ last'.raised = "IntegrityError"
                /\ db' = db
                /\ Cardinality({r \in T2 : r.id = last'.id}) = 1]_vars

\* C10 witness: a strict insert has just been rejected and the table holds one
\* row for its id.
C10_Witness ==
  /\ last.op \in {"insert_defect_info", "insert_repaird_info"}
  /\ last.raised = "IntegrityError"
  /\ Cardinality({r \in (IF last.op = "insert_defect_info"
                           THEN db[last.store].defect
                           ELSE db[last.store].repaird) : r.id = last.id}) = 1

\* ---------------------------------------------- claims on the caller's calls
\* The table a call of the given operation works on, in database D.
TableOf(op, D) ==
  IF op \in {"insert_repaird_info", "insert_repaird_info_batch", "merge_repaird_info_batch",
             "get_repaird_info_by_id", "get_all_repaird_info", "delete_repaird_info",
             "delete_repaird_infos"}
    THEN D.repaird ELSE D.defect

\* The call recorded in `call` passed _check_connection.
Admitted == call.op # "none" /\ call.raised # "RuntimeError"

BatchInserts == {"insert_defect_infos", "insert_defect_info_batch", "insert_repaird_info_batch"}

\* The list l names an id the table T holds, or names an id twice.
Offending(l, T) ==
  \/ \E k \in DOMAIN l : \E r \in T : r.id = l[k].id
  \/ \E j, k \in DOMAIN l : j # k /\ l[j].id = l[k].id

\* C11: a batch insert (insert_defect_infos, insert_defect_info_batch,
\* insert_repaird_info_batch) on an open handle, given a list in which a
\* record's id is already in the table or occurs twice, raises, and whenever a
\* batch insert raises the database is exactly as before the call; when it
\* raises nothing every record of the list is in the table.
C11_BatchInsertAtomic ==
  (call.op \in BatchInserts /\ Admitted) =>
    /\ Offending(call.arg, TableOf(call.op, call.before)) => call.raised = "IntegrityError"
                                                             \/ call.raised = "StorageError"
    /\ call.raised # "none" => db[ApiStore] = call.before
    /\ call.raised = "none" =>
         \A k \in DOMAIN call.arg :
           \E r \in TableOf(call.op, db[ApiStore]) : r.id = call.arg[k].id

\* C11 witness: insert_defect_infos was given a new record followed by a
\* record whose id the table holds; it raised IntegrityError and the new
\* record is not in the table.
C11_Witness ==
  /\ call.op = "insert_defect_infos"
  /\ call.raised = "IntegrityError"
  /\ Len(call.arg) = 2
  /\ \A r \in call.before.defect : r.id # call.arg[1].id
  /\ \E r \in call.before.defect : r.id = call.arg[2].id
  /\ db[ApiStore] = call.before

\* C12: merge_insert_defect_info on an open handle raises nothing but a storage
\* error; when it returns, the table holds exactly one row of the record's id,
\* with the record's values, every other row is as before, the row count is
\* as before when the id was in the table and one more when it was not, and
\* upserting the same record again leaves the database as it is.
C12_Upsert ==
  (call.op = "merge_insert_defect_info" /\ Admitted) =>
    LET obj == call.arg[1]
        T0  == call.before.defect
        T1  == db[ApiStore].defect
    IN  /\ call.raised \in {"none", "StorageError"}
        /\ call.raised = "none" =>
             /\ {r \in T1 : r.id = obj.id} = {[id |-> obj.id, x |-> obj.x]}
             /\ {r \in T1 : r.id # obj.id} = {r \in T0 : r.id # obj.id}
             /\ Cardinality(T1) = IF \E r \in T0 : r.id = obj.id
                                    THEN Cardinality(T0) ELSE Cardinality(T0) + 1
             /\ db[ApiStore].repaird = call.before.repaird
             /\ merge_insert_defect_info(db[ApiStore], obj).db = db[ApiStore]

\* C12 witness: an upsert overwrote the row of an id that the table held with
\* another value of x, beside a row of another id.
C12_Witness ==
  /\ call.op = "merge_insert_defect_info"
  /\ call.raised = "none"
  /\ \E r \in call.before.defect : r.id = call.arg[1].id /\ r.x # call.arg[1].x
  /\ \E r \in db[ApiStore].defect : r.id = call.arg[1].id /\ r.x = call.arg[1].x
  /\ Cardinality(db[ApiStore].defect) = 2

\* C13: delete_defect_info(id) and delete_repaird_info(id) on an open handle
\* raise nothing but a storage error; they return True exactly when the table
\* held a row of that id, and then that row alone is gone, the row count is one
\* less, a lookup of the id returns None and a second delete of the id returns
\* False; they return False and leave the database as it is when the table
\* held no such row.
C13_DeleteReturns ==
  (call.op \in {"delete_defect_info", "delete_repaird_info"} /\ Admitted) =>
    LET id == call.arg[1]
        T0 == TableOf(call.op, call.before)
        T1 == TableOf(call.op, db[ApiStore])
        lookup == IF call.op = "delete_defect_info"
                    THEN get_defect_info_by_id(db[ApiStore], id)
                    ELSE get_repaird_info_by_id(db[ApiStore], id)
        again  == IF call.op = "delete_defect_info"
                    THEN delete_defect_info(db[ApiStore], id)
                    ELSE delete_repaird_info(db[ApiStore], id)
    IN  /\ call.raised \in {"none", "StorageError"}
        /\ call.raised = "none" =>
             /\ call.ret = (\E r \in T0 : r.id = id)
             /\ call.ret =>
                  /\ T1 = {r \in T0 : r.id # id}
                  /\ Cardinality(T1) = Cardinality(T0) - 1
                  /\ lookup = None
                  /\ again.ret = FALSE
                  /\ again.db = db[ApiStore]
             /\ ~call.ret => db[ApiStore] = call.before

\* C13 witness: delete_repaird_info returned True for an id the table held
\* beside a row of another id, and only the other row is left.
C13_Witness ==
  /\ call.op = "delete_repaird_info"
  /\ call.raised = "none"
  /\ call.ret
  /\ Cardinality(call.before.repaird) = 2
  /\ Cardinality(db[ApiStore].repaird) = 1
  /\ \A r \in db[ApiStore].repaird : r.id # call.arg[1]

\* C14 as claimed: delete_defect_infos(ids) and delete_repaird_infos(ids) on
\* an open handle return the number of rows removed, the table's row count
\* before the call minus its row count after it, for every list of ids.
C14_DeleteBatchCount ==
  (call.op \in {"delete_defect_infos", "delete_repaird_infos"}
     /\ Admitted /\ call.raised = "none") =>
    call.ret = Cardinality(TableOf(call.op, call.before))
                 - Cardinality(TableOf(call.op, db[ApiStore]))

\* The data operations of a handle.
DataOps ==
  {"create_tables", "insert_defect_info", "insert_defect_infos", "insert_defect_info_batch",
   "merge_insert_defect_info", "merge_insert_defect_infos", "insert_repaird_info",
   "insert_repaird_info_batch", "merge_repaird_info_batch", "get_defect_info_by_id",
   "get_all_defect_info", "get_repaird_info_by_id", "get_all_repaird_info",
   "delete_defect_info", "delete_defect_infos", "delete_repaird_info",
   "delete_repaird_infos"}

C16_Lifecycle ==
  /\ [](\A n \in Handles : disposals[n] = IF sql_ops[n]._closed THEN 1 ELSE 0)
  /\ [][\A n \in Handles :
          /\ sql_ops[n]._closed => sql_ops'[n]._closed
          /\ (sql_ops[n]._closed /\ call'.h = n /\ call'.op \in {"close", "with"})
               => /\ sql_ops'[n] = sql_ops[n]
                  /\ disposals'[n] = disposals[n]
                  /\ call'.raised = IF call'.op = "with" THEN call'.arg ELSE "none"]_vars

\* C16 witness: close() was called on a handle that the end of its with-block
\* had closed; it raised nothing and the engine has been disposed once.
C16_Witness ==
  /\ call.op = "close"
  /\ call.raised = "none"
  /\ scope[call.h] = "exited"
  /\ sql_ops[call.h]._closed
  /\ sql_ops[call.h].engine = "disposed"
  /\ disposals[call.h] = 1

\* C17 as claimed: a handle constructed by a with statement is open when the
\* block is entered and closed when the block has ended, normally or by an
\* exception, and the with statement raises exactly what the block raised:
\* the block's exception, or nothing when the block completed.
C17_ScopedHandle ==
  /\ call.op = "__enter__" => ~sql_ops[call.h]._closed /\ scope[call.h] = "inside"
  /\ \A n \in Handles : scope[n] = "exited" => sql_ops[n]._closed
  /\ call.op = "with" => call.raised = call.arg

\* C18: delete_defect_info leaves the Repair table as it was, so every Repair
\* Record, the one of the deleted id included, is retrieved by its id with the
\* fields it had; delete_repaird_info leaves the Defect table as it was and
\* every Defect Record is retrieved by its id with the fields it had.
C18_IndependentDelete ==
  /\ (call.op = "delete_defect_info" /\ Admitted) =>
       /\ db[ApiStore].repaird = call.before.repaird
       /\ \A id \in Ids : get_repaird_info_by_id(db[ApiStore], id)
                            = get_repaird_info_by_id(call.before, id)
  /\ (call.op = "delete_repaird_info" /\ Admitted) =>
       /\ db[ApiStore].defect = call.before.defect
       /\ \A id \in Ids : get_defect_info_by_id(db[ApiStore], id)
                            = get_defect_info_by_id(call.before, id)

\* C18 witness: the database held a Defect row and a Repair row of one id,
\* delete_repaird_info removed the Repair row, and the Defect Record is still
\* retrieved by that id with the value of x it had.
C18_Witness ==
  /\ call.op = "delete_repaird_info"
  /\ call.raised = "none"
  /\ call.ret
  /\ \E d \in call.before.defect :
       /\ d.id = call.arg[1]
       /\ get_repaird_info_by_id(db[ApiStore], d.id) = None
       /\ get_defect_info_by_id(db[ApiStore], d.id) = DefectInfo(d.id, d.x, <<>>)

\* ------------------------------------------------ claims on identities
\* The triple of a set of keyword arguments.
Triple(v) == <<v.lot_number, v.current_board_index, v.defect_number>>

\* No id, or the empty id, was given.
NoId(v) == ~v.id_given \/ v.id = <<>>

C20_ExplicitIdWins ==
  \A k \in DOMAIN made :
    /\ ~NoId(kwargs[k]) => made[k].id = kwargs[k].id
    /\ (made[k].id = uuid5(namespace(kwargs[k].lot_number, kwargs[k].current_board_index,
                                     kwargs[k].defect_number)))
         <=> NoId(kwargs[k])
    /\ Triple(made[k]) = Triple(kwargs[k])

\* C20 witness: of two records with the same triple, the one given the id "X"
\* has the id "X" and the one given the empty id has the generated id.
C20_Witness ==
  /\ Len(made) = 2
  /\ Triple(kwargs[1]) = Triple(kwargs[2])
  /\ kwargs[1].id_given /\ kwargs[1].id = <<"X">>
  /\ kwargs[2].id_given /\ kwargs[2].id = <<>>
  /\ made[1].id = <<"X">>
  /\ made[2].id # <<"X">>

\* ------------------------------------------------- claims on real records
\* The (lot_number, current_board_index, defect_number) of a constructed
\* record.
TripleOf(obj) == <<obj.x.lot_number, obj.x.current_board_index, obj.x.defect_number>>

\* C21 as claimed: after insert_defect_info(obj) has succeeded and obj has
\* been deleted, every newly constructed record with obj's triple and no
\* explicit id is inserted without an error, get_defect_info_by_id with the new
\* record's id returns the new record's id and field values, and
\* get_defect_info_by_id with obj's id returns None.
C21_ReinsertAfterDelete ==
  (call.op = "insert_defect_info" /\ call.raised = "none") =>
    LET defect == call.arg[1]
        del == delete_defect_info(db[ApiStore], defect.id)
    IN  /\ del.ret = TRUE
        /\ get_defect_info_by_id(del.db, defect.id) = None
        /\ \A k \in RecordKwargs :
             LET defect_new == DefectInfo_init(k)
                 ins == insert_defect_info(del.db, defect_new)
                 retrieved == get_defect_info_by_id(ins.db, defect_new.id)
             IN  TripleOf(defect_new) = TripleOf(defect) =>
                   /\ ins.raised = "none"
                   /\ retrieved # None
                   /\ retrieved.id = defect_new.id
                   /\ retrieved.x = defect_new.x
                   /\ get_defect_info_by_id(ins.db, defect.id) = None

\* The entries of the list l that are the last of their id in l.
LastOfId(l) == {k \in DOMAIN l : \A j \in DOMAIN l : j > k => l[j].id # l[k].id}

\* C22 as claimed: get_defect_info_by_id and get_repaird_info_by_id raise
\* nothing and return None when the table holds no row of the id, and right
\* after a successful insert or upsert of a record, a lookup of the record's id
\* on the same handle returns a record equal to the written one, id and fields.
C22_ReadYourWrites ==
  /\ (call.op \in {"get_defect_info_by_id", "get_repaird_info_by_id"}
        /\ \A r \in TableOf(call.op, call.before) : r.id # call.arg[1]) =>
       call.raised = "none" /\ call.ret = None
  /\ (call.op \in {"insert_defect_info", "merge_insert_defect_info"} /\ call.raised = "none") =>
       get_defect_info_by_id(db[ApiStore], call.arg[1].id) = call.arg[1]
  /\ (call.op = "insert_repaird_info" /\ call.raised = "none") =>
       get_repaird_info_by_id(db[ApiStore], call.arg[1].id) = call.arg[1]
  /\ (call.op = "merge_repaird_info_batch" /\ call.raised = "none") =>
       \A k \in LastOfId(call.arg) :
         get_repaird_info_by_id(db[ApiStore], call.arg[k].id) = call.arg[k]

\* The rows the records of a returned list stand for.
RowsOf(l) == {schema_to_db_defect(l[k]) : k \in DOMAIN l}

\* The database after delete_defect_info of every record of the list, one
\* call after the other; ok tells whether every call returned True.
RECURSIVE DeleteEach(_, _)
DeleteEach(D, l) ==
  IF l = <<>>
    THEN [db |-> D, ok |-> TRUE]
    ELSE LET r == delete_defect_info(D, Head(l).id)
             rest == DeleteEach(r.db, Tail(l))
         IN  [db |-> rest.db, ok |-> r.ret /\ rest.ok]

\* C23: get_defect_info_by_lot(lot) returns one record for every stored row
\* whose lot_number is lot and no other record, and get_all_defect_info one
\* record for every stored row; after insert_defect_info_batch of N records
\* with distinct ids into an empty table get_all_defect_info returns N
\* records, and after delete_defect_info of each of them the empty list.
C23_Queries ==
  /\ (call.op = "get_defect_info_by_lot" /\ call.raised = "none") =>
       LET stored == {r \in call.before.defect : r.x.lot_number = call.arg[1]}
       IN  /\ RowsOf(call.ret) = stored
           /\ Len(call.ret) = Cardinality(stored)
  /\ (call.op = "get_all_defect_info" /\ call.raised = "none") =>
       /\ RowsOf(call.ret) = call.before.defect
       /\ Len(call.ret) = Cardinality(call.before.defect)
  /\ (call.op = "insert_defect_info_batch" /\ call.raised = "none"
        /\ call.before.defect = {}
        /\ \A j, k \in DOMAIN call.arg : j # k => call.arg[j].id # call.arg[k].id) =>
       /\ \A l \in get_all_defect_info(db[ApiStore]) : Len(l) = Len(call.arg)
       /\ DeleteEach(db[ApiStore], call.arg).ok
       /\ get_all_defect_info(DeleteEach(db[ApiStore], call.arg).db) = {<<>>}

\* C23 witness: get_defect_info_by_lot returned two records of its lot from a
\* table that also holds a row of another lot.
C23_Witness ==
  /\ call.op = "get_defect_info_by_lot"
  /\ call.raised = "none"
  /\ Len(call.ret) = 2
  /\ \A k \in DOMAIN call.ret : call.ret[k].x.lot_number = call.arg[1]
  /\ \E r \in call.before.defect : r.x.lot_number # call.arg[1]

\* C24 as claimed: a Defect Record carries, from its construction on, the
\* board_number_label lot_number + "_" + current_board_index, and the record
\* read back by id after its insert carries the same board_number_label as the
\* record that was inserted.
C24_BoardNumberLabel ==
  (call.op = "insert_defect_info" /\ call.raised = "none") =>
    LET defect == call.arg[1]
        retrieved == get_defect_info_by_id(db[ApiStore], defect.id)
    IN  /\ defect.board_number_label
             = board_number_label(defect.x.lot_number, defect.x.current_board_index)
        /\ retrieved # None
        /\ retrieved.board_number_label = defect.board_number_label

\* ------------------------------------------- claims on failures and schema
\* The operations that write to the store.
MutatingOps ==
  {"insert_defect_info", "insert_defect_infos", "insert_defect_info_batch",
   "merge_insert_defect_info", "merge_insert_defect_infos", "insert_repaird_info",
   "insert_repaird_info_batch", "merge_repaird_info_batch", "delete_defect_info",
   "delete_defect_infos", "delete_repaird_info", "delete_repaird_infos"}

GivenNothing ==
  /\ call.op \in {"insert_defect_infos", "insert_defect_info_batch",
                  "insert_repaird_info_batch", "merge_insert_defect_infos",
                  "merge_repaird_info_batch", "delete_defect_infos", "delete_repaird_infos"}
  /\ call.arg = <<>>

\* C27 as claimed: constructing a handle on the caller's directory raises
\* nothing, whether or not the directory holds a database file with rows;
\* constructing a handle on a directory under which no database file can be
\* opened raises a storage error, so no data operation is ever called on a
\* handle of such a directory.
C27_Original ==
  /\ call.op \in {"__init__", "__enter__"} =>
       call.raised = IF call.arg[1] = ApiStore THEN "none" ELSE "StorageError"
  /\ call.op \in DataOps => db_url[call.h] = ApiStore

\* C27 as amended: constructing a handle raises nothing and gives an open
\* handle whatever the directory; on a handle of a directory under which no
\* database file can be opened, every data operation that connects
\* (create_tables, every read, every write or delete given at least one record
\* or id) raises the storage's error and leaves the database as it was.
C27_OpenIsLazy ==
  /\ call.op \in {"__init__", "__enter__"} =>
       /\ call.raised = "none"
       /\ sql_ops[call.h].bound
       /\ ~sql_ops[call.h]._closed
       /\ db_url[call.h] = call.arg[1]
       /\ db[ApiStore] = call.before
  /\ (call.op \in DataOps /\ Admitted /\ db_url[call.h] # ApiStore /\ ~GivenNothing) =>
       /\ call.raised = "StorageError"
       /\ call.ret = None
       /\ db[ApiStore] = call.before

\* C27 witness: a handle was constructed on the invalid path without an
\* error, and create_tables, the first data operation on it, raised the
\* storage's error.
C27_Witness ==
  /\ call.op = "create_tables"
  /\ db_url[call.h] = "/invalid/path"
  /\ ~sql_ops[call.h]._closed
  /\ ncalls = 1
  /\ call.raised = "StorageError"

\* No two rows of the table T hold the same id.
UniqueIds(T) == \A a, b \in T : a.id = b.id => a = b

\* C28: in every state the Defect table and the Repair table of every store
\* hold at most one row per id, whatever the caller's operations and the
\* merges did and whether they raised.
C28_UniqueIds ==
  \A s \in Stores : UniqueIds(db[s].defect) /\ UniqueIds(db[s].repaird)

\* C28 witness: a batch upsert named an id the table held with another value;
\* the table holds one row of that id, with the list's value.
C28_Witness ==
  /\ call.op = "merge_insert_defect_infos"
  /\ call.raised = "none"
  /\ \E k \in DOMAIN call.arg :
       /\ \E r \in call.before.defect : r.id = call.arg[k].id /\ r.x # call.arg[k].x
       /\ {r \in db[ApiStore].defect : r.id = call.arg[k].id}
            = {schema_to_db_defect(call.arg[k])}

\* C29: merge_insert_defect_infos and merge_repaird_info_batch on an open
\* handle whose storage works raise nothing, also when the list names an id
\* more than once, and the table then holds, for every id of the list, exactly
\* one row, with the values of the id's last occurrence in the list; the rows
\* of other ids are as before.
C29_BatchUpsertLastWins ==
  (call.op \in {"merge_insert_defect_infos", "merge_repaird_info_batch"}
     /\ Admitted /\ ~call.fault) =>
    LET T0 == TableOf(call.op, call.before)
        T1 == TableOf(call.op, db[ApiStore])
        row(obj) == IF call.op = "merge_insert_defect_infos"
                      THEN schema_to_db_defect(obj) ELSE schema_to_db_repaird(obj)
        named == {call.arg[k].id : k \in DOMAIN call.arg}
    IN  /\ call.raised = "none"
        /\ \A k \in LastOfId(call.arg) :
             {r \in T1 : r.id = call.arg[k].id} = {row(call.arg[k])}
        /\ {r \in T1 : r.id \notin named} = {r \in T0 : r.id \notin named}

\* C29 witness: merge_repaird_info_batch was given two records of one id
\* with different values; it raised nothing and the table holds the second.
C29_Witness ==
  /\ call.op = "merge_repaird_info_batch"
  /\ call.raised = "none"
  /\ Len(call.arg) = 2
  /\ call.arg[1].id = call.arg[2].id
  /\ call.arg[1] # call.arg[2]
  /\ {r \in db[ApiStore].repaird : r.id = call.arg[2].id}
       = {schema_to_db_repaird(call.arg[2])}

\* ------------------------------------------------ claims on the merge's frame
\* C30: from the call of merge_target_database on, at every step of it and
\* when it has returned or raised, whatever the delete lists, both tables of
\* source hold the rows they held when it was called.
C30_SourceUnchanged ==
  InOrAfterMerge => db["source"] = pre["source"]

\* C30 witness: a merge has ended whose delete list names the id of a Defect
\* row of source; target holds no row of that id and source holds its row.
C30_Witness ==
  /\ pc = "done"
  /\ \E k \in DOMAIN args.delete_defect_ids :
       /\ \E r \in db["source"].defect : r.id = args.delete_defect_ids[k]
       /\ \A r \in db["target"].defect : r.id # args.delete_defect_ids[k]
       /\ \E r \in pre["target"].defect : r.id = args.delete_defect_ids[k]
  /\ db["source"] = pre["source"]

====
